---- MODULE Spec2Model ----
(***************************************************************************)
(* Pakistan AR Guide: the scan / recognize / narrate lifecycle of the      *)
(* PakistanARGuide component.  Two variants of the component exist in the  *)
(* repository (src/src/App.jsx and src/unnamed/part_000); `variant` says   *)
(* which one a behaviour runs.  Probabilities are percentages (0.7 = 70).  *)
(* Labels are sequences of one-character strings so that toLowerCase and   *)
(* the /[^a-z]/g replacement are computed character by character.          *)
(***************************************************************************)
EXTENDS Integers, Sequences, FiniteSets, TLC

(* ------------------------------ bounds --------------------------------- *)
\* startCamera() calls (clicks on Start Camera that pass the API check)
MaxStarts == 2
\* predict() calls that may be in flight at once
MaxPending == 2
\* callbacks of cancelled utterances that may be outstanding at once
MaxLate == 1

(* --------------------------- program constants -------------------------- *)
\* the 0.7 of `maxConfidence > 0.7` and `result.confidence > 0.7`
Threshold == 70

APP == "App.jsx"
PART == "part_000"

(* ------------------------------ labels ---------------------------------- *)
UpperCase == <<"A","B","C","D","E","F","G","H","I","J","K","L","M",
               "N","O","P","Q","R","S","T","U","V","W","X","Y","Z">>
LowerCase == <<"a","b","c","d","e","f","g","h","i","j","k","l","m",
               "n","o","p","q","r","s","t","u","v","w","x","y","z">>

\* String.prototype.toLowerCase on one character
LowerChar(c) ==
  IF \E i \in 1..26 : UpperCase[i] = c
    THEN LowerCase[CHOOSE i \in 1..26 : UpperCase[i] = c]
    ELSE c

\* String.prototype.toLowerCase
toLowerCase(s) == [i \in 1..Len(s) |-> LowerChar(s[i])]

\* the character class [a-z]
IsAZ(c) == \E i \in 1..26 : LowerCase[i] = c

\* s.replace(/[^a-z]/g, '')
RECURSIVE StripNonAZ(_)
StripNonAZ(s) ==
  IF s = <<>> THEN <<>>
  ELSE IF IsAZ(Head(s)) THEN <<Head(s)>> \o StripNonAZ(Tail(s))
  ELSE StripNonAZ(Tail(s))

\* a key that is lowercased but keeps every character
placeKey_NoStrip(place) == toLowerCase(place)

\* const placeKey = result.place.toLowerCase().replace(/[^a-z]/g, '')
placeKey(place) == StripNonAZ(toLowerCase(place))

(* --------------------------- the site catalog --------------------------- *)
KeyTaxila == <<"t","a","x","i","l","a">>
KeyBadshahi == <<"b","a","d","s","h","a","h","i">>
KeyMohenjodaro == <<"m","o","h","e","n","j","o","d","a","r","o">>

\* the own properties of placesDatabase: key, display name, narration text
placesDatabase ==
  { [key |-> KeyTaxila, name |-> "Taxila",
     narration |-> "Welcome to Taxila, one of the world's oldest universities."],
    [key |-> KeyBadshahi, name |-> "Badshahi Mosque",
     narration |-> "You are witnessing the magnificent Badshahi Mosque"],
    [key |-> KeyMohenjodaro, name |-> "Mohenjo-daro",
     narration |-> "Welcome to Mohenjo-daro, meaning 'Mound of the Dead'."] }

CatalogKeys == { r.key : r \in placesDatabase }

\* placesDatabase is an object literal: a property read that misses its own
\* keys continues on Object.prototype.  A key consists of a-z only, and of the
\* inherited properties only `constructor` has such a name; its value is the
\* function Object (truthy, .name "Object", no .narration).
ObjectPrototype ==
  { [key |-> <<"c","o","n","s","t","r","u","c","t","o","r">>,
     name |-> "Object", narration |-> "undefined"] }

\* recognizedPlace === null / a lookup that yields undefined
Null == [key |-> <<>>, name |-> "null", narration |-> "null"]

\* const place = placesDatabase[placeKey]
Lookup(k) ==
  IF \E r \in placesDatabase : r.key = k
    THEN CHOOSE r \in placesDatabase : r.key = k
  ELSE IF \E r \in ObjectPrototype : r.key = k
    THEN CHOOSE r \in ObjectPrototype : r.key = k
  ELSE Null

\* the value setRecognizedPlace stores, { ...place, key: placeKey }: the own
\* enumerable properties of place and the key.  A catalog record is copied
\* whole; the function Object has no enumerable property (its .name is not
\* enumerable), so of it only the key remains.
setRecognizedPlace(place) ==
  IF place \in ObjectPrototype
    THEN [key |-> place.key, name |-> "undefined", narration |-> "undefined"]
    ELSE place

(* --------------------------- classification ----------------------------- *)
Pred(cls, p) == [className |-> cls, probability |-> p]

\* a loop that compares with >=: the last of equal maxima wins
RECURSIVE TopFrom_LastWins(_, _, _)
TopFrom_LastWins(prediction, maxConfidence, recognizedClass) ==
  IF prediction = <<>>
    THEN [place |-> recognizedClass, confidence |-> maxConfidence]
  ELSE IF Head(prediction).probability >= maxConfidence
    THEN TopFrom_LastWins(Tail(prediction), Head(prediction).probability,
                          toLowerCase(Head(prediction).className))
  ELSE TopFrom_LastWins(Tail(prediction), maxConfidence, recognizedClass)

\* the prediction.forEach loop: strict > keeps the first of equal maxima
RECURSIVE TopFrom(_, _, _)
TopFrom(prediction, maxConfidence, recognizedClass) ==
  IF prediction = <<>>
    THEN [place |-> recognizedClass, confidence |-> maxConfidence]
  ELSE IF Head(prediction).probability > maxConfidence
    THEN TopFrom(Tail(prediction), Head(prediction).probability,
                 toLowerCase(Head(prediction).className))
  ELSE TopFrom(Tail(prediction), maxConfidence, recognizedClass)

NoResult == [place |-> <<>>, confidence |-> 0]

\* a comparison that lets exactly 0.7 through
AboveThreshold_AtLeast(p) == p >= Threshold

\* the comparison `> 0.7`, written in recognizePlace and again in the tick
AboveThreshold(p) == p > Threshold

\* recognizePlace after predict() resolved with `prediction`:
\* the top entry if its probability is > 0.7, else null
recognizePlace(prediction) ==
  LET top == TopFrom(prediction, 0, <<>>)
  IN IF AboveThreshold(top.confidence) THEN top ELSE NoResult

\* the tick's decision on a result: the place to recognize, or Null
\*   if (result && result.confidence > 0.7) {
\*     const place = placesDatabase[placeKey]; if (place) { ... } }
Recognize(result) ==
  IF result # NoResult /\ AboveThreshold(result.confidence)
    THEN Lookup(placeKey(result.place))
    ELSE Null

(* ------------------------ classifier outputs ---------------------------- *)
LTaxilaSp == <<"T","a","x","i","l","a"," ">>
LBadshahiMosque ==
  <<"B","a","d","s","h","a","h","i","-","M","o","s","q","u","e","!","!">>
LConstructor == <<"C","o","n","s","t","r","u","c","t","o","r">>
LCat == <<"c","a","t">>

\* the prediction lists predict() may resolve with
Predictions ==
  { <<Pred(LTaxilaSp, 70), Pred(KeyBadshahi, 20), Pred(KeyMohenjodaro, 10)>>,
    <<Pred(LTaxilaSp, 5), Pred(KeyMohenjodaro, 92), Pred(KeyBadshahi, 3)>>,
    <<Pred(LBadshahiMosque, 85), Pred(KeyTaxila, 15)>>,
    <<Pred(LCat, 20), Pred(LTaxilaSp, 80), Pred(KeyBadshahi, 80)>>,
    <<Pred(LConstructor, 90), Pred(KeyTaxila, 10)>> }

\* what a tick computes from each prediction list: the top entry of the forEach
\* loop, the result recognizePlace returns and the place the tick recognizes
Outcomes ==
  { [top |-> TopFrom(p, 0, <<>>),
     result |-> recognizePlace(p),
     place |-> Recognize(recognizePlace(p))] : p \in Predictions }

(* ------------------------------- state ---------------------------------- *)
VARIABLES
  variant,          \* which source file runs: APP or PART
  sinkHeld,         \* the <video> element is attached whatever isScanning is
  speechSupported,  \* 'speechSynthesis' in window
  mounted,          \* the component is mounted
  isScanning, recognizedPlace, confidence, isSpeaking, modelLoading, showInfo,
  modelRef,         \* modelRef.current holds a loaded model
  modelOf,          \* the start call whose tmImage.load produced it, 0 for none
  streamRef,        \* streamRef.current: the stream of a start call, 0 for null
  scanIntervalRef,  \* scanIntervalRef.current: the timer of a start call, 0 for null,
                    \* Dead for the id of a timer that was cleared
  srcObject,        \* videoRef.current.srcObject: a stream, 0 for null, Dead for a
                    \* stream whose tracks were stopped
  pc,               \* where each startCamera() call is
  guard,            \* per start call: the recognizedPlace its closure captured is null
  tracks,           \* per start call: the stream it acquired has live tracks
  timers,           \* per start call: the interval timer it created is running
  pending,          \* predict() calls in flight, started since the last stopCamera()
  stale,            \* predict() calls in flight, started before the last stopCamera()
  utterances,       \* the queue of window.speechSynthesis
  lateEvents,       \* end/error callbacks of cancelled utterances not yet delivered
  recognitions,     \* history: Recognized transitions since the last stopCamera()
  last              \* history: the step just taken

env == <<variant, sinkHeld, speechSupported>>
state == <<isScanning, recognizedPlace, confidence, modelLoading, showInfo>>
refs == <<modelRef, modelOf, streamRef, scanIntervalRef, srcObject>>
procs == <<pc, guard, tracks, timers>>
calls == <<pending, stale>>
speech == <<utterances, lateEvents, isSpeaking>>
vars == <<env, mounted, state, refs, procs, calls, speech, recognitions, last>>

\* the start calls, in the order they are made
Starts == 1..MaxStarts

\* what a ref holds once the timer or stream it names is no longer live
Dead == MaxStarts + 1

\* a step of kind op, by start call id, with the top prediction it handled
Ev(op, top, id) == [op |-> op, top |-> top, id |-> id]

\* any step the properties do not speak about
Other == Ev("other", NoResult, 0)

\* a state setter: React drops state updates of an unmounted component
SetState(cur, new) == IF mounted THEN new ELSE cur

\* videoRef.current: the element of `{!isScanning ? (...) : (<video ref={videoRef} .../>)}`
VideoRef == mounted /\ (sinkHeld \/ isScanning)

Init ==
  /\ variant \in {APP, PART}
  /\ sinkHeld \in BOOLEAN
  /\ speechSupported \in BOOLEAN
  /\ mounted = TRUE
  /\ isScanning = FALSE
  /\ recognizedPlace = Null
  /\ confidence = 0
  /\ isSpeaking = FALSE
  /\ modelLoading = FALSE
  /\ showInfo = FALSE
  /\ modelRef = FALSE
  /\ modelOf = 0
  /\ streamRef = 0
  /\ scanIntervalRef = 0
  /\ srcObject = 0
  /\ pc = [i \in Starts |-> "new"]
  /\ guard = [i \in Starts |-> TRUE]
  /\ tracks = [i \in Starts |-> FALSE]
  /\ timers = [i \in Starts |-> FALSE]
  /\ pending = 0
  /\ stale = 0
  /\ utterances = <<>>
  /\ lateEvents = 0
  /\ recognitions = 0
  /\ last = Other

(* ------------------------------ narration ------------------------------- *)
\* cancel() may be called: the callbacks it leaves outstanding stay within MaxLate
CanCancel == speechSupported => lateEvents + Len(utterances) <= MaxLate

\* the speech channel and the flag that follows it
CurSpeech == [utterances |-> utterances, lateEvents |-> lateEvents,
              isSpeaking |-> isSpeaking]

\* a stopSpeaking without speechSynthesis.cancel(): only the flag is reset
stopSpeakingOn_NoCancel(sp, live) ==
  IF speechSupported
    THEN [sp EXCEPT !.isSpeaking = IF live THEN FALSE ELSE @]
    ELSE sp

\* stopSpeaking() on speech state sp: cancel() empties the queue, each cancelled
\* utterance still delivers its end/error callback; setIsSpeaking(false) takes
\* effect when `live`
stopSpeakingOn(sp, live) ==
  IF speechSupported
    THEN [utterances |-> <<>>,
          lateEvents |-> sp.lateEvents + Len(sp.utterances),
          isSpeaking |-> IF live THEN FALSE ELSE sp.isSpeaking]
    ELSE sp

\* a speakNarration without `if ('speechSynthesis' in window)`
speakNarrationOn_Unchecked(sp, text, live) ==
  [utterances |-> <<[text |-> text, playing |-> FALSE]>>,
   lateEvents |-> sp.lateEvents + Len(sp.utterances),
   isSpeaking |-> IF live THEN FALSE ELSE sp.isSpeaking]

\* a speakNarration without its stopSpeaking(): the utterance is queued behind
\* whatever the channel holds
speakNarrationOn_NoCancel(sp, text, live) ==
  IF speechSupported
    THEN [sp EXCEPT !.utterances = Append(@, [text |-> text, playing |-> FALSE])]
    ELSE sp

\* speakNarration(text) on speech state sp: stopSpeaking(), then speak(utterance)
speakNarrationOn(sp, text, live) ==
  IF speechSupported
    THEN [stopSpeakingOn(sp, live) EXCEPT
            !.utterances = Append(@, [text |-> text, playing |-> FALSE])]
    ELSE sp

SetSpeech(sp) ==
  /\ utterances' = sp.utterances
  /\ lateEvents' = sp.lateEvents
  /\ isSpeaking' = sp.isSpeaking

stopSpeaking == SetSpeech(stopSpeakingOn(CurSpeech, mounted))

speakNarration(text) == SetSpeech(speakNarrationOn(CurSpeech, text, mounted))

\* utterance.onstart
UtterStart ==
  /\ utterances # <<>> /\ ~Head(utterances).playing
  /\ utterances' = <<[Head(utterances) EXCEPT !.playing = TRUE]>> \o Tail(utterances)
  /\ isSpeaking' = SetState(isSpeaking, TRUE)
  /\ last' = Other
  /\ UNCHANGED <<env, mounted, state, refs, procs, calls, lateEvents, recognitions>>

\* utterance.onend (it played to its end) / utterance.onerror (synthesis failed)
UtterEnd ==
  /\ utterances # <<>>
  /\ utterances' = Tail(utterances)
  /\ isSpeaking' = SetState(isSpeaking, FALSE)
  /\ last' = Other
  /\ UNCHANGED <<env, mounted, state, refs, procs, calls, lateEvents, recognitions>>

\* onend/onerror of an utterance that cancel() removed
LateCallback ==
  /\ lateEvents > 0
  /\ lateEvents' = lateEvents - 1
  /\ isSpeaking' = SetState(isSpeaking, FALSE)
  /\ last' = Other
  /\ UNCHANGED <<env, mounted, state, refs, procs, calls, utterances, recognitions>>

(* --------------------------- the start sequence -------------------------- *)
\* clearInterval(ref) under `if (ref)`: the timer the ref names stops
Cleared(tm, ref) == [i \in Starts |-> tm[i] /\ i # ref]

\* the ref keeps the id, now of a cleared timer
AfterClear(ref) == IF ref = 0 THEN 0 ELSE Dead

clearInterval ==
  /\ timers' = Cleared(timers, scanIntervalRef)
  /\ scanIntervalRef' = AfterClear(scanIntervalRef)

\* startScanning() called by start call i: a new interval timer, kept in the ref
startScanning(i) ==
  /\ timers' = [timers EXCEPT ![i] = TRUE]
  /\ scanIntervalRef' = i

\* the Start Camera button: shown while !isScanning, in App.jsx disabled={modelLoading}
CanStart ==
  /\ mounted
  /\ ~isScanning
  /\ variant = APP => ~modelLoading

\* the place the next start call takes
NextStart == CHOOSE i \in Starts : pc[i] = "new" /\ \A j \in 1..(i - 1) : pc[j] # "new"

\* startCamera() up to its first await: the camera API check, then loadModel() begins
StartCamera ==
  /\ CanStart
  /\ \E i \in Starts : pc[i] = "new"
  /\ \E api \in BOOLEAN :
       LET i == NextStart IN
       IF api
         THEN /\ pc' = [pc EXCEPT ![i] = "load"]
              /\ guard' = [guard EXCEPT ![i] = (recognizedPlace = Null)]
              /\ modelLoading' = IF variant = APP THEN TRUE ELSE modelLoading
              /\ last' = Other
         ELSE /\ UNCHANGED <<pc, guard, modelLoading>>
              /\ last' = Ev("unsupported", NoResult, i)
  /\ UNCHANGED <<env, mounted, isScanning, recognizedPlace, confidence, showInfo,
                 refs, tracks, timers, calls, speech, recognitions>>

\* tmImage.load resolved: modelRef.current is set, getUserMedia is requested
LoadOk(i) ==
  /\ pc[i] = "load"
  /\ modelRef' = TRUE
  /\ modelOf' = i
  /\ modelLoading' = IF variant = APP THEN SetState(modelLoading, FALSE) ELSE modelLoading
  /\ pc' = [pc EXCEPT ![i] = "gum"]
  /\ last' = Other
  /\ UNCHANGED <<env, mounted, isScanning, recognizedPlace, confidence, showInfo,
                 streamRef, scanIntervalRef, srcObject, guard, tracks, timers,
                 calls, speech, recognitions>>

\* a startCamera without `if (!modelLoaded) return`: it goes on to getUserMedia
LoadFail_Continue(i) ==
  /\ pc[i] = "load"
  /\ modelLoading' = IF variant = APP THEN SetState(modelLoading, FALSE) ELSE modelLoading
  /\ pc' = [pc EXCEPT ![i] = "gum"]
  /\ UNCHANGED <<guard, tracks, timers>>
  /\ last' = Ev("loadfailed", NoResult, i)
  /\ UNCHANGED <<env, mounted, isScanning, recognizedPlace, confidence, showInfo,
                 refs, calls, speech, recognitions>>

\* tmImage.load rejected: loadModel returns false and startCamera returns
LoadFail(i) ==
  /\ pc[i] = "load"
  /\ modelLoading' = IF variant = APP THEN SetState(modelLoading, FALSE) ELSE modelLoading
  /\ pc' = [pc EXCEPT ![i] = "end"]
  /\ UNCHANGED <<guard, tracks, timers>>
  /\ last' = Ev("loadfailed", NoResult, i)
  /\ UNCHANGED <<env, mounted, isScanning, recognizedPlace, confidence, showInfo,
                 refs, calls, speech, recognitions>>

\* getUserMedia resolved with a stream; `if (videoRef.current)` binds and keeps it,
\* otherwise the function ends with the stream in no ref
GumOk(i) ==
  /\ pc[i] = "gum"
  /\ tracks' = [tracks EXCEPT ![i] = TRUE]
  /\ IF VideoRef
       THEN /\ srcObject' = i
            /\ streamRef' = i
            /\ pc' = [pc EXCEPT ![i] = "meta"]
            /\ last' = Other
       ELSE /\ UNCHANGED <<srcObject, streamRef>>
            /\ pc' = [pc EXCEPT ![i] = "end"]
            /\ last' = Ev("skipped", NoResult, i)
  /\ UNCHANGED <<env, mounted, state, modelRef, modelOf, scanIntervalRef, guard, timers,
                 calls, speech, recognitions>>

\* getUserMedia rejected (NotAllowedError, NotFoundError, NotReadableError): the catch
GumFail(i) ==
  /\ pc[i] = "gum"
  /\ pc' = [pc EXCEPT ![i] = "end"]
  /\ UNCHANGED <<guard, tracks, timers>>
  /\ last' = Ev("gumfailed", NoResult, i)
  /\ UNCHANGED <<env, mounted, state, refs, calls, speech, recognitions>>

\* setIsScanning(true) and what follows it: App.jsx calls startScanning() at once,
\* part_000 defers it with setTimeout(..., 1000)
EnterScanning(i) ==
  /\ isScanning' = SetState(isScanning, TRUE)
  /\ IF variant = APP
       THEN /\ startScanning(i)
            /\ pc' = [pc EXCEPT ![i] = "end"]
       ELSE /\ UNCHANGED <<timers, scanIntervalRef>>
            /\ pc' = [pc EXCEPT ![i] = "defer"]
  /\ UNCHANGED guard

\* `await videoRef.current.play()` threw or rejected: App.jsx alerts and goes on to
\* setIsScanning(true); part_000 reports the error and ends
PlayFailed(i) ==
  IF variant = APP
    THEN EnterScanning(i)
    ELSE /\ UNCHANGED <<isScanning, timers, scanIntervalRef, guard>>
         /\ pc' = [pc EXCEPT ![i] = "end"]

\* onloadedmetadata: the promise resolves and play() is called on videoRef.current
\* (a TypeError inside the inner try when the element is gone)
MetaOk(i) ==
  /\ pc[i] = "meta"
  /\ UNCHANGED tracks
  /\ IF VideoRef
       THEN /\ pc' = [pc EXCEPT ![i] = "play"]
            /\ UNCHANGED <<isScanning, timers, scanIntervalRef, guard>>
            /\ last' = Other
       ELSE /\ PlayFailed(i)
            /\ last' = Ev("playfailed", NoResult, i)
  /\ UNCHANGED <<env, mounted, recognizedPlace, confidence, modelLoading, showInfo,
                 modelRef, modelOf, streamRef, srcObject, calls, speech, recognitions>>

\* part_000 only: video.onerror or the 10 s timeout rejects the wait: the catch
MetaFail(i) ==
  /\ variant = PART
  /\ pc[i] = "meta"
  /\ pc' = [pc EXCEPT ![i] = "end"]
  /\ UNCHANGED <<guard, tracks, timers>>
  /\ last' = Ev("metafailed", NoResult, i)
  /\ UNCHANGED <<env, mounted, state, refs, calls, speech, recognitions>>

\* play() resolved
PlayOk(i) ==
  /\ pc[i] = "play"
  /\ EnterScanning(i)
  /\ last' = Ev("playing", NoResult, i)
  /\ UNCHANGED <<env, mounted, recognizedPlace, confidence, modelLoading, showInfo,
                 modelRef, modelOf, streamRef, srcObject, tracks, calls, speech,
                 recognitions>>

\* play() rejected
PlayFail(i) ==
  /\ pc[i] = "play"
  /\ UNCHANGED tracks
  /\ PlayFailed(i)
  /\ last' = Ev("playfailed", NoResult, i)
  /\ UNCHANGED <<env, mounted, recognizedPlace, confidence, modelLoading, showInfo,
                 modelRef, modelOf, streamRef, srcObject, calls, speech, recognitions>>

\* part_000: the setTimeout callback runs startScanning()
Deferred(i) ==
  /\ pc[i] = "defer"
  /\ startScanning(i)
  /\ pc' = [pc EXCEPT ![i] = "end"]
  /\ last' = Other
  /\ UNCHANGED <<env, mounted, state, modelRef, modelOf, streamRef, srcObject, guard, tracks,
                 calls, speech, recognitions>>

(* ------------------------------ the scan loop --------------------------- *)
\* predict() calls in flight
InFlight == pending + stale

\* a recognizePlace without `if (!modelRef.current || !videoRef.current) return null`
Tick_Unchecked(i) ==
  /\ timers[i]
  /\ IF guard[i]
       THEN /\ InFlight < MaxPending
            /\ pending' = pending + 1
            /\ last' = Other
       ELSE /\ UNCHANGED pending
            /\ last' = Ev("idletick", NoResult, i)
  /\ UNCHANGED <<env, mounted, state, refs, procs, stale, speech, recognitions>>

\* the interval callback of timer i fires: `if (!recognizedPlace)` reads the value
\* its closure captured; recognizePlace() returns null without a model or a video
\* element, otherwise it calls model.predict and awaits it
Tick(i) ==
  /\ timers[i]
  /\ IF guard[i] /\ modelRef /\ VideoRef
       THEN /\ InFlight < MaxPending
            /\ pending' = pending + 1
            /\ last' = Other
       ELSE /\ UNCHANGED pending
            /\ last' = Ev("idletick", NoResult, i)
  /\ UNCHANGED <<env, mounted, state, refs, procs, stale, speech, recognitions>>

\* a pending predict() resolves with a prediction list, of outcome o, and the
\* callback runs to its end: on a catalog entry it clears the timer in
\* scanIntervalRef, sets the recognized place and the confidence and speaks the
\* narration
Classified(o, old) ==
  /\ IF old THEN stale > 0 ELSE pending > 0
  /\ stale' = IF old THEN stale - 1 ELSE stale
  /\ pending' = IF old THEN pending ELSE pending - 1
  /\ LET result == o.result
         place == o.place
     IN IF place # Null
          THEN /\ CanCancel
               /\ clearInterval
               /\ recognizedPlace' =
                    SetState(recognizedPlace, setRecognizedPlace(place))
               /\ confidence' = SetState(confidence, result.confidence)
               /\ speakNarration(place.narration)
               /\ recognitions' = IF recognitions < 2 THEN recognitions + 1 ELSE 2
          ELSE UNCHANGED <<timers, scanIntervalRef, recognizedPlace, confidence,
                           speech, recognitions>>
  /\ last' = Ev("classified", o.top, 0)
  /\ UNCHANGED <<env, mounted, isScanning, modelLoading, showInfo, modelRef, modelOf,
                 streamRef, srcObject, pc, guard, tracks>>

\* a catch that gives up scanning: it clears the timer
ClassifyError_Fatal(old) ==
  /\ IF old THEN stale > 0 ELSE pending > 0
  /\ stale' = IF old THEN stale - 1 ELSE stale
  /\ pending' = IF old THEN pending ELSE pending - 1
  /\ clearInterval
  /\ last' = Ev("classifyerror", NoResult, 0)
  /\ UNCHANGED <<env, mounted, state, modelRef, modelOf, streamRef, srcObject, pc, guard,
                 tracks, speech, recognitions>>

\* a pending predict() rejects: the catch logs and recognizePlace returns null
ClassifyError(old) ==
  /\ IF old THEN stale > 0 ELSE pending > 0
  /\ stale' = IF old THEN stale - 1 ELSE stale
  /\ pending' = IF old THEN pending ELSE pending - 1
  /\ last' = Ev("classifyerror", NoResult, 0)
  /\ UNCHANGED <<env, mounted, state, refs, procs, speech, recognitions>>

(* --------------------------------- stop --------------------------------- *)
\* what stopCamera() reads and writes
Session ==
  [tracks |-> tracks, streamRef |-> streamRef, srcObject |-> srcObject,
   timers |-> timers, scanIntervalRef |-> scanIntervalRef,
   isScanning |-> isScanning, recognizedPlace |-> recognizedPlace,
   confidence |-> confidence, speech |-> CurSpeech, threw |-> FALSE]

\* a stopCamera() without `if (streamRef.current)`: getTracks() of null throws and
\* nothing after it runs
stopCameraOn_Unguarded(s, video, live) ==
  IF s.streamRef = 0
    THEN [s EXCEPT !.threw = TRUE]
    ELSE [tracks |-> [i \in Starts |-> s.tracks[i] /\ i # s.streamRef],
          streamRef |-> 0,
          srcObject |-> IF video \/ s.srcObject = 0 THEN 0
                        ELSE IF s.srcObject = s.streamRef THEN Dead ELSE s.srcObject,
          timers |-> Cleared(s.timers, s.scanIntervalRef),
          scanIntervalRef |-> AfterClear(s.scanIntervalRef),
          isScanning |-> IF live THEN FALSE ELSE s.isScanning,
          recognizedPlace |-> IF live THEN Null ELSE s.recognizedPlace,
          confidence |-> IF live THEN 0 ELSE s.confidence,
          speech |-> stopSpeakingOn(s.speech, live),
          threw |-> s.threw]

\* stopCamera() on session s; `video`: videoRef.current is set, `live`: state
\* updates take effect.  Every dereference is guarded, so it does not throw.
stopCameraOn(s, video, live) ==
  [tracks |-> [i \in Starts |-> s.tracks[i] /\ i # s.streamRef],
   streamRef |-> 0,
   srcObject |-> IF video \/ s.srcObject = 0 THEN 0
                 ELSE IF s.srcObject = s.streamRef THEN Dead ELSE s.srcObject,
   timers |-> Cleared(s.timers, s.scanIntervalRef),
   scanIntervalRef |-> AfterClear(s.scanIntervalRef),
   isScanning |-> IF live THEN FALSE ELSE s.isScanning,
   recognizedPlace |-> IF live THEN Null ELSE s.recognizedPlace,
   confidence |-> IF live THEN 0 ELSE s.confidence,
   speech |-> stopSpeakingOn(s.speech, live),
   threw |-> s.threw]

\* a call of stopCamera(): the predict() calls in flight now belong to a session
\* that was stopped
stopCamera(video, live) ==
  LET s == stopCameraOn(Session, video, live)
  IN /\ tracks' = s.tracks
     /\ streamRef' = s.streamRef
     /\ srcObject' = s.srcObject
     /\ timers' = s.timers
     /\ scanIntervalRef' = s.scanIntervalRef
     /\ isScanning' = s.isScanning
     /\ recognizedPlace' = s.recognizedPlace
     /\ confidence' = s.confidence
     /\ SetSpeech(s.speech)
     /\ stale' = stale + pending
     /\ pending' = 0
     /\ recognitions' = 0

\* the X button, shown while isScanning
StopButton ==
  /\ mounted /\ isScanning
  /\ CanCancel
  /\ stopCamera(VideoRef, TRUE)
  /\ last' = Ev("stop", NoResult, 0)
  /\ UNCHANGED <<env, mounted, modelLoading, showInfo, modelRef, modelOf, pc, guard>>

\* the component unmounts: React detaches the refs of its elements and discards its
\* state, then the effect cleanup calls stopCamera()
Unmount ==
  /\ mounted
  /\ CanCancel
  /\ mounted' = FALSE
  /\ stopCamera(FALSE, FALSE)
  /\ last' = Ev("unmount", NoResult, 0)
  /\ UNCHANGED <<env, modelLoading, showInfo, modelRef, modelOf, pc, guard>>

(* ------------------------- narration and info buttons -------------------- *)
\* the recognition overlay is rendered
Overlay == mounted /\ isScanning /\ recognizedPlace # Null

\* the Info button of the overlay / the X of the modal
ToggleInfo ==
  /\ IF showInfo THEN mounted /\ recognizedPlace # Null ELSE Overlay
  /\ showInfo' = ~showInfo
  /\ last' = Other
  /\ UNCHANGED <<env, mounted, isScanning, recognizedPlace, confidence, modelLoading,
                 refs, procs, calls, speech, recognitions>>

\* a replay that also clears the recognition
Replay_Reset ==
  /\ mounted /\ showInfo /\ recognizedPlace # Null
  /\ CanCancel
  /\ speakNarration(recognizedPlace.narration)
  /\ recognizedPlace' = Null
  /\ last' = Ev("replay", NoResult, 0)
  /\ UNCHANGED <<env, mounted, isScanning, confidence, modelLoading, showInfo, refs,
                 procs, calls, recognitions>>

\* Play Audio Guide Again, in the modal
Replay ==
  /\ mounted /\ showInfo /\ recognizedPlace # Null
  /\ CanCancel
  /\ speakNarration(recognizedPlace.narration)
  /\ last' = Ev("replay", NoResult, 0)
  /\ UNCHANGED <<env, mounted, state, refs, procs, calls, recognitions>>

\* the Stop button next to "Speaking..."
StopSpeakingButton ==
  /\ Overlay /\ isSpeaking
  /\ CanCancel
  /\ stopSpeaking
  /\ last' = Ev("stopspeaking", NoResult, 0)
  /\ UNCHANGED <<env, mounted, state, refs, procs, calls, recognitions>>

(* ---------------------------- specification ------------------------------ *)
Next ==
  \/ StartCamera
  \/ \E i \in Starts : LoadOk(i)
  \/ \E i \in Starts : LoadFail(i)
  \/ \E i \in Starts : GumOk(i)
  \/ \E i \in Starts : GumFail(i)
  \/ \E i \in Starts : MetaOk(i)
  \/ \E i \in Starts : MetaFail(i)
  \/ \E i \in Starts : PlayOk(i)
  \/ \E i \in Starts : PlayFail(i)
  \/ \E i \in Starts : Deferred(i)
  \/ \E i \in Starts : Tick(i)
  \/ \E o \in Outcomes, old \in BOOLEAN : Classified(o, old)
  \/ \E old \in BOOLEAN : ClassifyError(old)
  \/ StopButton
  \/ Unmount
  \/ ToggleInfo
  \/ Replay
  \/ StopSpeakingButton
  \/ UtterStart
  \/ UtterEnd
  \/ LateCallback

Spec == Init /\ [][Next]_vars

(* ------------------------------- claims ---------------------------------- *)
\* what a tick can observably change: the session state, the recognized record,
\* the confidence, the timers and the narration
Observable ==
  <<isScanning, recognizedPlace, confidence, timers, scanIntervalRef, utterances,
    lateEvents, isSpeaking>>

C3_SubThresholdNoEffect ==
  [][(last'.op = "classified" /\ last'.top.confidence <= 70)
       => UNCHANGED Observable]_vars

\* C3 witness: a result of exactly 0.7 was handled while scanning with the timer
\* running, and the session is still scanning with nothing recognized
C3_Witness ==
  /\ last.op = "classified" /\ last.top.confidence = 70
  /\ mounted /\ isScanning /\ recognizedPlace = Null /\ confidence = 0
  /\ scanIntervalRef \in Starts /\ timers[scanIntervalRef]
  /\ utterances = <<>> /\ ~isSpeaking

C7_StopReleasesAll ==
  last.op \in {"stop", "unmount"} =>
    /\ \A i \in Starts : ~tracks[i] /\ ~timers[i]
    /\ streamRef = 0
    /\ utterances = <<>>
    /\ last.op = "stop" =>
         /\ srcObject = 0
         /\ ~isScanning /\ recognizedPlace = Null /\ confidence = 0 /\ ~isSpeaking

\* C8: in every state and for either way of calling it, stopCamera() applied twice
\* gives what one application gives and neither application throws; and right after
\* the X button ran it, one more call changes nothing
C8_StopIdempotent ==
  /\ \A video \in BOOLEAN, live \in BOOLEAN :
       LET once == stopCameraOn(Session, video, live)
           twice == stopCameraOn(once, video, live)
       IN twice = once /\ ~twice.threw
  /\ last.op = "stop" =>
       \A video \in BOOLEAN : stopCameraOn(Session, video, TRUE) = Session

\* C8 witness: the X button just stopped a session that had a stream, an interval
\* timer and a narration: the state the second call starts from
C8_Witness ==
  /\ last.op = "stop" /\ mounted /\ ~isScanning
  /\ streamRef = 0 /\ \E i \in Starts : pc[i] = "end" /\ ~tracks[i]
  /\ scanIntervalRef = Dead
  /\ lateEvents > 0

\* the ways a start sequence aborts
Aborts == {"unsupported", "loadfailed", "gumfailed", "metafailed", "playfailed"}

Mohenjodaro == CHOOSE r \in placesDatabase : r.key = KeyMohenjodaro

\* C10: the first start of a mounted, idle component whose model load and camera
\* acquisition succeed goes on to the metadata wait; and in a scanning session with
\* nothing recognized a result "mohenjodaro" at 0.92 sets the Mohenjo-daro record,
\* confidence 0.92 and queues its narration text
C10_EndToEnd ==
  [][/\ (mounted /\ pc[1] = "gum" /\ pc[2] = "new" /\ tracks'[1])
        => pc'[1] = "meta"
     /\ (/\ last'.op = "classified" /\ mounted /\ isScanning
         /\ recognizedPlace = Null
         /\ last'.top = [place |-> KeyMohenjodaro, confidence |-> 92])
        => /\ recognizedPlace' = Mohenjodaro
           /\ confidence' = 92
           /\ speechSupported =>
                utterances' = <<[text |-> Mohenjodaro.narration, playing |-> FALSE]>>
    ]_vars

\* C11: a predict() call that rejects changes nothing observable, cancels no timer
\* and leaves everything a later tick needs in order to classify as it was
C11_ClassifyErrorNonFatal ==
  [][last'.op = "classifyerror" =>
       /\ UNCHANGED Observable
       /\ UNCHANGED <<guard, modelRef, mounted, sinkHeld>>]_vars

\* C11 witness: a predict() call rejected in a scanning session with nothing
\* recognized, and the timer of the session is still running
C11_Witness ==
  /\ last.op = "classifyerror"
  /\ mounted /\ isScanning /\ recognizedPlace = Null
  /\ scanIntervalRef \in Starts /\ timers[scanIntervalRef] /\ guard[scanIntervalRef]
  /\ modelRef /\ VideoRef

\* C12: isSpeaking becomes true only because the utterance requested last started
\* playing (never on account of one that a later speakNarration replaced), and it
\* is false when the channel empties in a mounted component
C12_SpeechPreemption ==
  [][/\ (~isSpeaking /\ isSpeaking') =>
          /\ utterances' # <<>>
          /\ utterances'[Len(utterances')].playing
          /\ lateEvents' = lateEvents
     /\ (utterances # <<>> /\ utterances' = <<>> /\ mounted') => ~isSpeaking'
    ]_vars

\* C12 witness: B plays and is reported while a callback of the utterance it
\* replaced is still to come
C12_Witness ==
  /\ mounted /\ lateEvents > 0
  /\ utterances # <<>> /\ Head(utterances).playing /\ isSpeaking

\* C13: the speech channel never holds more than one utterance, playing or queued
C13_OneUtterance == Len(utterances) <= 1

\* C13 witness: a speakNarration has just replaced an utterance: its own is queued,
\* alone, and the callback of the one it cancelled is still to come
C13_Witness ==
  /\ Len(utterances) = 1 /\ ~Head(utterances).playing
  /\ lateEvents > 0

IsHit(top) == top.confidence > 70 /\ placeKey(top.place) \in CatalogKeys

\* C15: without speech synthesis the channel stays empty and isSpeaking false; a
\* match still clears the timer and sets the record and the confidence; the X
\* button still releases the stream, clears the timer and resets the session
C15_SilentWithoutSpeech ==
  [][~speechSupported =>
       /\ utterances' = <<>> /\ lateEvents' = 0 /\ ~isSpeaking'
       /\ (last'.op = "classified" /\ IsHit(last'.top)) =>
            /\ timers' = Cleared(timers, scanIntervalRef)
            /\ mounted => /\ recognizedPlace' = Lookup(placeKey(last'.top.place))
                          /\ confidence' = last'.top.confidence
       /\ last'.op = "stop" =>
            /\ timers' = Cleared(timers, scanIntervalRef)
            /\ tracks' = [i \in Starts |-> tracks[i] /\ i # streamRef]
            /\ streamRef' = 0 /\ srcObject' = 0
            /\ ~isScanning' /\ recognizedPlace' = Null /\ confidence' = 0
    ]_vars

\* C15 witness: without speech synthesis, a match has just made the scanning
\* session Recognized, with the timer cleared and nothing spoken
C15_Witness ==
  /\ ~speechSupported /\ last.op = "classified" /\ IsHit(last.top)
  /\ mounted /\ isScanning
  /\ recognizedPlace \in placesDatabase /\ confidence = last.top.confidence
  /\ scanIntervalRef = Dead /\ \A i \in Starts : ~timers[i]
  /\ utterances = <<>> /\ ~isSpeaking

\* the catalog record of Taxila
Taxila == CHOOSE r \in placesDatabase : r.key = KeyTaxila

KeyBadshahiMosque == <<"b","a","d","s","h","a","h","i","m","o","s","q","u","e">>

\* the two labels as recognizePlace returns them, lowercased
LowTaxilaSp == toLowerCase(LTaxilaSp)
LowBadshahiMosque == toLowerCase(LBadshahiMosque)

\* the keys the two labels normalize to
NormTaxilaSp == placeKey(LTaxilaSp)
NormBadshahiMosque == placeKey(LBadshahiMosque)

\* the top labels the classifier outputs yield, lowercased by recognizePlace
TopLabels == { o.top.place : o \in Outcomes }

\* the top labels whose key has a character outside a-z
BadKeys == { l \in TopLabels : \E i \in 1..Len(placeKey(l)) : ~IsAZ(placeKey(l)[i]) }

\* C16: "Taxila " normalizes to "taxila" and a tick whose top label it is recognizes
\* Taxila; "Badshahi-Mosque!!" normalizes to "badshahimosque", which is no catalog
\* key, and a tick whose top label it is changes nothing; every normalized label
\* consists of the letters a-z only
C16_LabelNormalization ==
  [][last'.op = "classified" =>
       /\ NormTaxilaSp = KeyTaxila
       /\ NormBadshahiMosque = KeyBadshahiMosque
       /\ KeyBadshahiMosque \notin CatalogKeys
       /\ BadKeys = {}
       /\ (/\ last'.top = [place |-> LowTaxilaSp, confidence |-> 80]
           /\ mounted)
          => recognizedPlace' = Taxila
       /\ last'.top.place = LowBadshahiMosque => UNCHANGED Observable
    ]_vars

\* C16 witness: a tick with top label "Badshahi-Mosque!!" at 0.85 was handled in a
\* scanning session, which is still scanning with nothing recognized
C16_Witness ==
  /\ last.op = "classified"
  /\ last.top = [place |-> LowBadshahiMosque, confidence |-> 85]
  /\ mounted /\ isScanning /\ recognizedPlace = Null
  /\ scanIntervalRef \in Starts /\ timers[scanIntervalRef]

\* the highest probability of a prediction list
MaxProb(p) == CHOOSE m \in { p[i].probability : i \in 1..Len(p) } :
                \A i \in 1..Len(p) : p[i].probability <= m

\* the first position that has it
FirstMax(p) == CHOOSE i \in 1..Len(p) :
                 /\ p[i].probability = MaxProb(p)
                 /\ \A j \in 1..(i - 1) : p[j].probability < MaxProb(p)

\* the entry the claim selects from a prediction list
SelectedTop(p) == [place |-> toLowerCase(p[FirstMax(p)].className),
                   confidence |-> p[FirstMax(p)].probability]

\* per prediction list: the entry the claim selects and the key it normalizes to
Selected ==
  { [top |-> SelectedTop(p), key |-> placeKey(p[FirstMax(p)].className)] :
      p \in Predictions }

\* every list of one to three entries over three labels and four probabilities
SmallEntries == { Pred(c, q) : c \in {KeyTaxila, KeyBadshahi, LCat}, q \in {5, 70, 80, 92} }
SmallLists ==
  UNION { [1..n -> SmallEntries] : n \in 1..3 }

\* the small lists on which the forEach loop selects another entry
Misselected == { p \in SmallLists : TopFrom(p, 0, <<>>) # SelectedTop(p) }

\* C17: the entry a tick handles is the first entry of highest probability of its
\* prediction list (also for every small list), and a catalog record or a
\* confidence the tick sets is the one of that entry
C17_TopEntryFirstWins ==
  [][last'.op = "classified" =>
       \E e \in Selected :
         /\ Misselected = {}
         /\ e.top = last'.top
         /\ recognizedPlace' # recognizedPlace =>
              recognizedPlace'.key = e.key /\ confidence' = e.top.confidence
         /\ confidence' # confidence => confidence' = e.top.confidence
    ]_vars

\* C17 witness: of the list <cat 0.20, "Taxila " 0.80, badshahi 0.80> the tick took
\* "Taxila ", the first of the two maxima, and recognized Taxila
C17_Witness ==
  /\ last.op = "classified"
  /\ last.top = [place |-> LowTaxilaSp, confidence |-> 80]
  /\ mounted /\ recognizedPlace = Taxila /\ confidence = 80

\* C18: a start call creates its interval timer only when the model has been
\* loaded and the call has acquired its stream and bound it to the video element
\* (it is past the bind, at the metadata wait or later); and a tick calls predict()
\* only with a loaded model and a video element
C18_TimerAfterReady ==
  [][/\ \A i \in Starts :
          (~timers[i] /\ timers'[i]) =>
            /\ modelRef
            /\ pc[i] \in {"meta", "play", "defer"}
            /\ \A j \in Starts : timers'[j] => pc[j] # "new" /\ pc[j] # "load"
                                               /\ pc[j] # "gum"
     /\ pending' > pending => modelRef /\ VideoRef
    ]_vars

\* C18 witness: play() has just resolved in App.jsx and the timer of that start
\* call runs, with the model loaded and the call's stream live and bound
C18_Witness ==
  /\ last.op = "playing" /\ variant = APP
  /\ timers[last.id] /\ scanIntervalRef = last.id
  /\ modelRef /\ tracks[last.id] /\ streamRef = last.id /\ srcObject = last.id

\* Every promise a start call awaits settles, and a timer that was set fires: the
\* model load, getUserMedia, play(), part_000's metadata timeout and its deferred
\* startScanning.  The loadedmetadata event is the platform's to deliver or not.
StartFairness ==
  \A i \in Starts :
    /\ WF_vars(LoadOk(i) \/ LoadFail(i))
    /\ WF_vars(GumOk(i) \/ GumFail(i))
    /\ WF_vars(MetaFail(i))
    /\ WF_vars(PlayOk(i) \/ PlayFail(i))
    /\ WF_vars(Deferred(i))

FairSpec == Spec /\ StartFairness

C22_NoStreamLeak == \A i \in Starts : tracks[i] => streamRef = i

StartsInFlight == { i \in Starts : pc[i] \in {"load", "gum", "meta", "play"} }

\* C24: at most one start call is in flight
C24_OneStartInFlight == Cardinality(StartsInFlight) <= 1

C26_ClassifyNeedsModelAndVideo ==
  [][/\ pending' > pending => modelRef /\ VideoRef
     /\ last'.op = "idletick" =>
          /\ UNCHANGED Observable
          /\ UNCHANGED <<pending, stale, streamRef, srcObject, tracks, showInfo>>
    ]_vars

\* C26 witness: a timer that is still running ticked without a video element (the
\* component is gone) and returned without a predict() call
C26_Witness ==
  /\ last.op = "idletick" /\ timers[last.id] /\ guard[last.id]
  /\ modelRef /\ ~VideoRef
  /\ InFlight = 0

\* C27: Play Audio Guide Again and the narration Stop button change nothing but
\* the speech channel and isSpeaking
C27_NarrationOnly ==
  [][last'.op \in {"replay", "stopspeaking"} =>
       UNCHANGED <<isScanning, recognizedPlace, confidence, showInfo, modelLoading,
                   refs, procs, calls, mounted>>]_vars

\* C27 witness: the audio guide of a recognized catalog site was replayed in a
\* scanning session: the record, the confidence and the cleared timer are as the
\* recognition left them
C27_Witness ==
  /\ last.op = "replay" /\ mounted /\ isScanning
  /\ recognizedPlace \in placesDatabase /\ confidence > 70
  /\ scanIntervalRef = Dead /\ \A i \in Starts : ~timers[i]
  /\ utterances = <<[text |-> recognizedPlace.narration, playing |-> FALSE]>>

====
